---- MODULE Spec2Model ----
(***************************************************************************)
(* Model of rowboat/models/guild.py: the configuration-URL validator, the  *)
(* Guild record (create_from_url, sync, reload, get_config, sync_bans),    *)
(* the GuildEmoji upsert and the GuildBan insert-if-absent.                *)
(*                                                                         *)
(* URLs are TLA+ strings; Len, \o and SubSeq are the only string           *)
(* operations used, so every Python string method is rebuilt from them.    *)
(***************************************************************************)
EXTENDS Integers, Sequences, FiniteSets, TLC

VARIABLES
    scheme, host, segs, tail,   \* the pieces the input URL is assembled from
    url,                        \* the URL handed to validate_config_url
    normalized,                 \* validate_config_url(url), once computed
    renormalized,               \* validate_config_url of that result
    step,                       \* "input", "validated" or "revalidated"
    guilds,                     \* table guilds: a set of rows
    self,                       \* the in-memory Guild record object
    cached,                     \* its _cached_config attribute (None: absent)
    fetches,                    \* requests.get calls made by load_from_url
    parses,                     \* GuildConfig objects built by get_config
    bans,                       \* table guildbans: a set of rows
    users,                      \* table users: the ids User.ensure has seen
    firstEnsured,               \* history: the first ensure of each (guild, user)
    emojis,                     \* table guildemojis: a set of rows
    lastUpsert,                 \* history: the latest upsert of each emoji_id
    now,                        \* datetime.utcnow()
    calls,                      \* operations called so far
    last                        \* the latest call: what it was given and did

urlVars == <<scheme, host, segs, tail, url, normalized, renormalized, step>>

guildVars == <<guilds, self, cached, fetches, parses>>

banVars == <<bans, users, firstEnsured>>

emojiVars == <<emojis, lastUpsert>>

vars == <<urlVars, guildVars, banVars, emojiVars, now, calls, last>>

-----------------------------------------------------------------------------
(* Bounds *)

\* longest path (in segments) of an input URL
MaxSegs == 6

\* operations called on the records in one run
MaxCalls == 3

-----------------------------------------------------------------------------
(* Python values *)

\* Python's None; a string value s is the one-element tuple <<s>>.
None == <<>>
Some(s) == <<s>>

-----------------------------------------------------------------------------
(* String helpers: str.startswith, str.endswith, str.find, slicing *)

\* s[a-1:b] in Python's terms (1-based, both ends included), clamped to the
\* string the way a Python slice is
Slice(s, a, b) ==
    LET hi == IF b > Len(s) THEN Len(s) ELSE b IN
    IF a > hi THEN "" ELSE SubSeq(s, a, hi)

Char(s, i) == Slice(s, i, i)

StartsWith(s, p) == Slice(s, 1, Len(p)) = p

EndsWith(s, p) == Len(s) >= Len(p) /\ Slice(s, Len(s) - Len(p) + 1, Len(s)) = p

\* s[i-1:] in Python's terms
From(s, i) == Slice(s, i, Len(s))

Max(S) == CHOOSE m \in S : \A n \in S : n <= m
Min(S) == CHOOSE m \in S : \A n \in S : m <= n

\* the 1-based positions >= start where character c stands
Positions(s, c, start) == {i \in start..Len(s) : Char(s, i) = c}

\* every character of s is in the set cs
AllIn(s, cs) == \A i \in 1..Len(s) : Char(s, i) \in cs

-----------------------------------------------------------------------------
(* urlparse.urlparse(url).netloc *)

Digits == {"0", "1", "2", "3", "4", "5", "6", "7", "8", "9"}

Letters ==
    {"a", "b", "c", "d", "e", "f", "g", "h", "i", "j", "k", "l", "m",
     "n", "o", "p", "q", "r", "s", "t", "u", "v", "w", "x", "y", "z"}

\* urlparse.scheme_chars, restricted to the lower-case letters of the model
scheme_chars == Letters \cup Digits \cup {"+", "-", "."}

\* urlsplit's scheme step: the text left once a leading "<scheme>:" is taken
\* off.  A prefix is a scheme when it is non-empty, made of scheme_chars and
\* what follows is not a bare port number.
AfterScheme(u) ==
    LET colons == Positions(u, ":", 1) IN
    IF colons = {} THEN u
    ELSE LET i    == Min(colons)
             rest == From(u, i + 1)
         IN IF i > 1 /\ AllIn(Slice(u, 1, i - 1), scheme_chars)
                     /\ (Slice(u, 1, i - 1) = "http"
                         \/ rest = "" \/ ~AllIn(rest, Digits))
            THEN rest
            ELSE u

\* urlparse._splitnetloc(u, 2): up to the first of "/", "?", "#"
SplitNetloc(u) ==
    LET delims == Positions(u, "/", 3) \cup Positions(u, "?", 3) \cup Positions(u, "#", 3)
        delim  == IF delims = {} THEN Len(u) + 1 ELSE Min(delims)
    IN Slice(u, 3, delim - 1)

Netloc(u) ==
    LET r == AfterScheme(u) IN
    IF StartsWith(r, "//") THEN SplitNetloc(r) ELSE ""

-----------------------------------------------------------------------------
(* ALLOWED_DOMAINS, GIST_RE, GIST_FMT *)

ALLOWED_DOMAINS ==
    {"github.com", "githubusercontent.com", "pastebin.com",
     "hastebin.com", "gitlab.com", "bitbucket.org"}

\* The literal head of GIST_RE, 'https://gist.githubusercontent.com/': its two
\* dots are regex wildcards and match any character.
GistHeadLen == 35

GistHeadMatches(u) ==
    /\ Len(u) >= GistHeadLen
    /\ Slice(u, 1, 12) = "https://gist"
    /\ Slice(u, 14, 30) = "githubusercontent"
    /\ Slice(u, 32, 35) = "com/"

\* GIST_RE.match(url): None, or the three groups of
\* '(.*)/(.*)/raw/.*/(.*)' after the head.  Every '.*' is greedy, so each
\* group ends at the last position from which the rest still matches:
\*   raws   - where '/raw/.*/(.*)' matches: "/raw/" with a later "/" after it
\*   i      - the last "/" that has such a position after it (end of group 1)
\*   j      - the last such position after i (end of group 2)
\*   k      - the last "/" of all (start of group 3)
\* (No URL of the model holds a newline, the one character '.' rejects.)
GIST_RE_match(u) ==
    IF ~GistHeadMatches(u) THEN None
    ELSE LET slashes == Positions(u, "/", GistHeadLen + 1)
             raws    == {j \in slashes : /\ Slice(u, j, j + 4) = "/raw/"
                                         /\ \E k \in slashes : k >= j + 5}
             firsts  == {i \in slashes : \E j \in raws : j > i}
         IN IF firsts = {} THEN None
            ELSE LET i == Max(firsts)
                     j == Max({x \in raws : x > i})
                     k == Max(slashes)
                 IN <<Slice(u, GistHeadLen + 1, i - 1),
                      Slice(u, i + 1, j - 1),
                      From(u, k + 1)>>

\* GIST_FMT with the first two fields in the wrong order
GIST_FMT_swapped(g) ==
    "https://gist.githubusercontent.com/" \o g[2] \o "/" \o g[1] \o "/raw/" \o g[3]

\* GIST_FMT with a stray "/" at its end
GIST_FMT_trailingSlash(g) ==
    "https://gist.githubusercontent.com/" \o g[1] \o "/" \o g[2] \o "/raw/" \o g[3] \o "/"

\* GIST_FMT.format(*groups)
GIST_FMT(g) == "https://gist.githubusercontent.com/" \o g[1] \o "/" \o g[2] \o "/raw/" \o g[3]

-----------------------------------------------------------------------------
(* validate_config_url *)

\* any(parsed.netloc.endswith(i) for i in ALLOWED_DOMAINS)
HostAllowed(netloc) == \E d \in ALLOWED_DOMAINS : EndsWith(netloc, d)

validate_config_url(u) ==
    LET netloc == Netloc(u)
        match  == GIST_RE_match(u)
    IN IF ~HostAllowed(netloc) THEN None
       ELSE IF StartsWith(netloc, "gist") /\ match # None
            THEN Some(GIST_FMT(match))
            ELSE Some(u)

-----------------------------------------------------------------------------
(* Input URLs *)

Schemes == {"https://", "http://", ""}

Hosts ==
    {"github.com", "gist.github.com", "raw.githubusercontent.com",
     "gist.githubusercontent.com", "gist-githubusercontent.com",
     "pastebin.com", "hastebin.com", "gitlab.com", "bitbucket.org",
     "notgithub.com", "gistbitbucket.org", "evil.com", "gist.evil.com",
     "github.com.evil.com", "github.com:8080", "githubXcom", ""}

SegNames == {"alice", "raw", "f.yml"}

Tails == {"", "?h=.github.com"}

RECURSIVE SeqsUpTo(_, _)
SeqsUpTo(S, n) ==
    IF n = 0 THEN {<<>>}
    ELSE LET shorter == SeqsUpTo(S, n - 1) IN
         shorter \cup {Append(q, x) : q \in {p \in shorter : Len(p) = n - 1}, x \in S}

RECURSIVE Path(_)
Path(ss) == IF ss = <<>> THEN "" ELSE "/" \o Head(ss) \o Path(Tail(ss))

MakeUrl(sc, h, ss, t) == sc \o h \o Path(ss) \o t

-----------------------------------------------------------------------------
(* Specification of the validator: pick a URL, validate it, validate the    *)
(* result once more.                                                        *)

Validate ==
    /\ step = "input"
    /\ normalized' = validate_config_url(url)
    /\ step' = "validated"
    /\ UNCHANGED <<scheme, host, segs, tail, url, renormalized>>
    /\ UNCHANGED <<guildVars, banVars, emojiVars, now, calls, last>>

Revalidate ==
    /\ step = "validated"
    /\ normalized # None
    /\ renormalized' = validate_config_url(normalized[1])
    /\ step' = "revalidated"
    /\ UNCHANGED <<scheme, host, segs, tail, url, normalized>>
    /\ UNCHANGED <<guildVars, banVars, emojiVars, now, calls, last>>

-----------------------------------------------------------------------------
(* The Guild row and the live objects of the chat platform *)

GuildIds == {1, 2}

\* the platform-mirror fields, the list Guild.sync walks
MirrorFields == {"owner_id", "name", "icon", "splash", "region"}

\* the fields of a guilds row that Guild.sync must leave alone
BotFields == {"guild_id", "last_ban_sync", "config", "config_url", "enabled",
              "whitelist", "added_at"}

\* the values a live guild shows in each mirror field
OwnerIds == {10, 11}
Names    == {Some("a"), Some("b")}
Icons    == {None, Some("i")}
Splashes == {None, Some("s")}
Regions  == {Some("eu"), Some("us")}

\* a guild-like object of the platform: id, owner_id, name, icon, splash, region
LiveGuilds ==
    [id : GuildIds, owner_id : OwnerIds, name : Names, icon : Icons,
     splash : Splashes, region : Regions]

\* the guilds a record is created for in the model
NewGuilds ==
    {g \in LiveGuilds : /\ g.owner_id = 10 /\ g.name = Some("a") /\ g.icon = None
                        /\ g.splash = None /\ g.region = Some("eu")}

\* parsed YAML documents, as the set of their top-level keys; {} is the empty
\* mapping
Docs == {{}, {"plugins"}, {"plugins", "levels"}}

\* Python truthiness of the config column: None and the empty mapping are false
Falsy(config) == config = None \/ config[1] = {}

\* the record the model follows; it was stored with one of the configs the
\* nullable column admits
Row0(config) ==
    [guild_id |-> 1, owner_id |-> 10, name |-> Some("a"), icon |-> None,
     splash |-> None, region |-> Some("eu"), last_ban_sync |-> None,
     config |-> config, config_url |-> "https://github.com/o/r/config.yaml",
     enabled |-> TRUE, whitelist |-> <<>>, added_at |-> 0]

\* SELECT ... WHERE guild_id = gid
RowsOf(table, gid) == {r \in table : r.guild_id = gid}

\* UPDATE guilds SET <vals> WHERE guild_id = gid
UpdateWhere(table, gid, vals) ==
    {IF r.guild_id = gid
     THEN [k \in DOMAIN r |-> IF k \in DOMAIN vals THEN vals[k] ELSE r[k]]
     ELSE r : r \in table}

NoCall == [op |-> "none", arg |-> <<>>, outcome |-> "none", ret |-> None, writes |-> <<>>]

-----------------------------------------------------------------------------
(* Guild.with_id *)

\* cls.get(guild_id=guild_id): a fresh record object, or DoesNotExist
WithId ==
    /\ calls < MaxCalls
    /\ \E gid \in GuildIds :
         IF RowsOf(guilds, gid) = {}
         THEN /\ last' = [NoCall EXCEPT !.op = "with_id", !.arg = <<gid>>,
                                        !.outcome = "DoesNotExist"]
              /\ UNCHANGED <<self, cached>>
         ELSE /\ self' = CHOOSE r \in RowsOf(guilds, gid) : TRUE
              /\ cached' = None
              /\ last' = [NoCall EXCEPT !.op = "with_id", !.arg = <<gid>>,
                                        !.outcome = "ok"]
    /\ calls' = calls + 1
    /\ UNCHANGED <<guilds, fetches, parses>>
    /\ UNCHANGED <<urlVars, banVars, emojiVars, now>>

-----------------------------------------------------------------------------
(* Guild.sync *)

\* What sync(guild) does: the new guilds table and the statements issued.
\* The comparison reads the record object (getattr(self, key)), the update
\* goes to the table, and the record object is not touched.
Guild_sync(guild) ==
    LET keys    == {k \in MirrorFields : guild[k] # self[k]}
        updates == [k \in keys |-> guild[k]]
    IN IF keys # {}
       THEN [guilds |-> UpdateWhere(guilds, self.guild_id, updates),
             writes |-> <<[table |-> "guilds", kind |-> "update", cols |-> keys]>>]
       ELSE [guilds |-> guilds, writes |-> <<>>]

Sync ==
    /\ calls < MaxCalls
    /\ \E guild \in LiveGuilds :
         \E r \in {Guild_sync(guild)} :
         /\ guilds' = r.guilds
         /\ last' = [NoCall EXCEPT !.op = "sync", !.arg = <<guild>>,
                                   !.outcome = "ok", !.writes = r.writes]
    /\ calls' = calls + 1
    /\ UNCHANGED <<self, cached, fetches, parses>>
    /\ UNCHANGED <<urlVars, banVars, emojiVars, now>>

-----------------------------------------------------------------------------
(* Guild.load_from_url, Guild.create_from_url *)

\* What one load_from_url call comes to: None when requests.get,
\* raise_for_status, yaml.load or GuildConfig.validate raises, or the parsed
\* document.  The remote file decides, so every outcome can happen at every
\* call.
LoadOutcomes == {None} \cup {Some(d) : d \in Docs}

ConfigUrls ==
    {"https://github.com/o/r/config.yaml",
     "https://gist.githubusercontent.com/alice/abc123/raw/deadbeef/config.yaml",
     "https://evil.com/config.yaml",
     "github.com/o/r/config.yaml"}

\* cls.create(...): the row INSERTed, with the column defaults
NewRow(guild, raw, u) ==
    [guild_id |-> guild.id, owner_id |-> guild.owner_id, name |-> guild.name,
     icon |-> guild.icon, splash |-> guild.splash, region |-> guild.region,
     last_ban_sync |-> None, config |-> raw, config_url |-> u,
     enabled |-> TRUE, whitelist |-> <<>>, added_at |-> now]

\* create_from_url that loads the URL before it looks at the validator's answer
Guild_create_from_url_loadFirst(guild, u, loaded) ==
    LET v == validate_config_url(u) IN
    IF loaded = None
    THEN [outcome |-> "LoaderError", guilds |-> guilds, fetches |-> fetches + 1,
          ret |-> None, writes |-> <<>>]
    ELSE IF v = None \/ v[1] = ""
    THEN [outcome |-> "InvalidConfigURL", guilds |-> guilds, fetches |-> fetches + 1,
          ret |-> None, writes |-> <<>>]
    ELSE IF RowsOf(guilds, guild.id) # {}
    THEN [outcome |-> "IntegrityError", guilds |-> guilds, fetches |-> fetches + 1,
          ret |-> None, writes |-> <<>>]
    ELSE [outcome |-> "ok",
          guilds |-> guilds \cup {NewRow(guild, loaded, v[1])},
          fetches |-> fetches + 1,
          ret |-> Some(NewRow(guild, loaded, v[1])),
          writes |-> <<[table |-> "guilds", kind |-> "insert",
                        cols |-> DOMAIN NewRow(guild, loaded, v[1])]>>]

\* create_from_url(guild, url) when load_from_url comes to `loaded`
Guild_create_from_url(guild, u, loaded) ==
    LET v == validate_config_url(u) IN
    IF v = None \/ v[1] = ""
    THEN [outcome |-> "InvalidConfigURL", guilds |-> guilds, fetches |-> fetches,
          ret |-> None, writes |-> <<>>]
    ELSE IF loaded = None
    THEN [outcome |-> "LoaderError", guilds |-> guilds, fetches |-> fetches + 1,
          ret |-> None, writes |-> <<>>]
    ELSE IF RowsOf(guilds, guild.id) # {}
    THEN [outcome |-> "IntegrityError", guilds |-> guilds, fetches |-> fetches + 1,
          ret |-> None, writes |-> <<>>]
    ELSE [outcome |-> "ok",
          guilds |-> guilds \cup {NewRow(guild, loaded, v[1])},
          fetches |-> fetches + 1,
          ret |-> Some(NewRow(guild, loaded, v[1])),
          writes |-> <<[table |-> "guilds", kind |-> "insert",
                        cols |-> DOMAIN NewRow(guild, loaded, v[1])]>>]

CreateFromUrl ==
    /\ calls < MaxCalls
    /\ \E guild \in NewGuilds, u \in ConfigUrls, loaded \in LoadOutcomes :
         \E r \in {Guild_create_from_url(guild, u, loaded)} :
         /\ guilds' = r.guilds
         /\ fetches' = r.fetches
         /\ last' = [op |-> "create_from_url", arg |-> <<guild, u>>,
                     outcome |-> r.outcome, ret |-> r.ret, writes |-> r.writes]
    /\ calls' = calls + 1
    /\ now' = now + 1
    /\ UNCHANGED <<self, cached, parses>>
    /\ UNCHANGED <<urlVars, banVars, emojiVars>>

-----------------------------------------------------------------------------
(* Guild.reload, Guild.get_config *)

\* reload() that keeps _cached_config
Guild_reload_keepCache(loaded) ==
    IF loaded = None
    THEN [outcome |-> "LoaderError", self |-> self, guilds |-> guilds,
          cached |-> cached, fetches |-> fetches + 1, writes |-> <<>>]
    ELSE LET me == [self EXCEPT !.config = loaded] IN
         [outcome |-> "ok", self |-> me,
          guilds |-> UpdateWhere(guilds, me.guild_id, me),
          cached |-> cached, fetches |-> fetches + 1,
          writes |-> <<[table |-> "guilds", kind |-> "update", cols |-> DOMAIN me]>>]

\* reload() when load_from_url comes to `loaded`.  A failed load raises before
\* anything is assigned; save() writes every field of the record object to its
\* row.
Guild_reload(loaded) ==
    IF loaded = None
    THEN [outcome |-> "LoaderError", self |-> self, guilds |-> guilds,
          cached |-> cached, fetches |-> fetches + 1, writes |-> <<>>]
    ELSE LET me == [self EXCEPT !.config = loaded] IN
         [outcome |-> "ok", self |-> me,
          guilds |-> UpdateWhere(guilds, me.guild_id, me),
          cached |-> None, fetches |-> fetches + 1,
          writes |-> <<[table |-> "guilds", kind |-> "update", cols |-> DOMAIN me]>>]

Reload ==
    /\ calls < MaxCalls
    /\ \E loaded \in LoadOutcomes :
         \E r \in {Guild_reload(loaded)} :
         /\ self' = r.self
         /\ guilds' = r.guilds
         /\ cached' = r.cached
         /\ fetches' = r.fetches
         /\ last' = [op |-> "reload", arg |-> <<>>, outcome |-> r.outcome,
                     ret |-> loaded, writes |-> r.writes]
    /\ calls' = calls + 1
    /\ UNCHANGED parses
    /\ UNCHANGED <<urlVars, banVars, emojiVars, now>>

\* get_config() when the load_from_url of its reload() (if it makes one)
\* comes to `loaded`.  The emptiness test on config comes first, the test on
\* _cached_config second.  The object built is numbered by the parse count.
Guild_get_config(loaded) ==
    LET rl == IF Falsy(self.config) THEN Guild_reload(loaded)
              ELSE [outcome |-> "ok", self |-> self, guilds |-> guilds,
                    cached |-> cached, fetches |-> fetches, writes |-> <<>>]
    IN IF rl.outcome # "ok"
       THEN [outcome |-> rl.outcome, self |-> rl.self, guilds |-> rl.guilds,
             cached |-> rl.cached, fetches |-> rl.fetches, parses |-> parses,
             ret |-> None, writes |-> rl.writes]
       ELSE IF rl.cached = None
       THEN [outcome |-> "ok", self |-> rl.self, guilds |-> rl.guilds,
             cached |-> Some([obj |-> parses + 1, src |-> rl.self.config]),
             fetches |-> rl.fetches, parses |-> parses + 1,
             ret |-> Some(parses + 1), writes |-> rl.writes]
       ELSE [outcome |-> "ok", self |-> rl.self, guilds |-> rl.guilds,
             cached |-> rl.cached, fetches |-> rl.fetches, parses |-> parses,
             ret |-> Some(rl.cached[1].obj), writes |-> rl.writes]

GetConfig ==
    /\ calls < MaxCalls
    /\ \E loaded \in LoadOutcomes :
         \E r \in {Guild_get_config(loaded)} :
         /\ self' = r.self
         /\ guilds' = r.guilds
         /\ cached' = r.cached
         /\ fetches' = r.fetches
         /\ parses' = r.parses
         /\ last' = [op |-> "get_config", arg |-> <<>>, outcome |-> r.outcome,
                     ret |-> r.ret, writes |-> r.writes]
    /\ calls' = calls + 1
    /\ UNCHANGED <<urlVars, banVars, emojiVars, now>>

-----------------------------------------------------------------------------
(* GuildBan.ensure, Guild.sync_bans *)

UserIds == {1, 2}

\* ban.reason is nullable
Reasons == {None, Some("spam"), Some("raid")}

\* a ban object of the platform: reason and the nested user
LiveBans == [user : [id : UserIds], reason : Reasons]

\* guild.get_bans(): a mapping from user id to ban object
BanLists ==
    UNION {[S -> Reasons] : S \in SUBSET UserIds}

BanOf(m, u) == [user |-> [id |-> u], reason |-> m[u]]

\* what one get_bans call comes to: None when it raises, or the mapping
BanFetches == {None} \cup {Some(m) : m \in BanLists}

\* the live guilds whose bans are synced in the model
BanGuilds == NewGuilds

\* ensure that overwrites the reason of a row it finds
GuildBan_ensure_overwrite(table, people, guild, ban) ==
    LET found == {r \in table : r.guild_id = guild.id /\ r.user_id = ban.user.id}
        row   == [user_id |-> ban.user.id, guild_id |-> guild.id, reason |-> ban.reason]
    IN [bans |-> (table \ found) \cup {row}, users |-> people \cup {ban.user.id},
        ret |-> row, created |-> found = {}]

\* GuildBan.ensure(guild, ban) on the tables given: User.ensure, then
\* get_or_create on (guild_id, user_id) with the reason as a default only
GuildBan_ensure(table, people, guild, ban) ==
    LET found == {r \in table : r.guild_id = guild.id /\ r.user_id = ban.user.id}
        row   == [user_id |-> ban.user.id, guild_id |-> guild.id, reason |-> ban.reason]
    IN IF found # {}
       THEN [bans |-> table, users |-> people \cup {ban.user.id},
             ret |-> CHOOSE r \in found : TRUE, created |-> FALSE]
       ELSE [bans |-> table \cup {row}, users |-> people \cup {ban.user.id},
             ret |-> row, created |-> TRUE]

\* the history of first ensures, after an ensure of (guild, ban)
Remember(hist, guild, ban) ==
    IF \E h \in hist : h.guild_id = guild.id /\ h.user_id = ban.user.id
    THEN hist
    ELSE hist \cup {[user_id |-> ban.user.id, guild_id |-> guild.id, reason |-> ban.reason]}

Ensure ==
    /\ calls < MaxCalls
    /\ \E guild \in BanGuilds, ban \in LiveBans :
         \E r \in {GuildBan_ensure(bans, users, guild, ban)} :
         /\ bans' = r.bans
         /\ users' = r.users
         /\ firstEnsured' = Remember(firstEnsured, guild, ban)
         /\ last' = [op |-> "ensure", arg |-> <<guild, ban>>, outcome |-> "ok",
                     ret |-> Some(r.ret),
                     writes |-> IF r.created
                                THEN <<[table |-> "guildbans", kind |-> "insert",
                                        cols |-> DOMAIN r.ret]>>
                                ELSE <<>>]
    /\ calls' = calls + 1
    /\ UNCHANGED <<urlVars, guildVars, emojiVars, now>>

\* for ban in bans.values(): GuildBan.ensure(guild, ban)
RECURSIVE EnsureAll(_, _, _, _, _, _)
EnsureAll(table, people, hist, guild, m, todo) ==
    IF todo = {}
    THEN [bans |-> table, users |-> people, hist |-> hist]
    ELSE LET u == CHOOSE x \in todo : TRUE
             r == GuildBan_ensure(table, people, guild, BanOf(m, u))
         IN EnsureAll(r.bans, r.users, Remember(hist, guild, BanOf(m, u)),
                      guild, m, todo \ {u})

\* sync_bans that stamps last_ban_sync whether or not the fetch failed
Guild_sync_bans_stampAlways(guild, fetched) ==
    LET e == IF fetched = None
             THEN [bans |-> bans, users |-> users, hist |-> firstEnsured]
             ELSE EnsureAll(bans, users, firstEnsured, guild, fetched[1],
                            DOMAIN fetched[1])
    IN [outcome |-> "returned",
        guilds |-> UpdateWhere(guilds, self.guild_id, [last_ban_sync |-> Some(now)]),
        bans |-> e.bans, users |-> e.users, hist |-> e.hist,
        writes |-> <<[table |-> "guilds", kind |-> "update",
                      cols |-> {"last_ban_sync"}]>>]

\* sync_bans(guild) when guild.get_bans() comes to `fetched`.  The bare
\* except returns on every failure of the fetch; otherwise every ban is
\* ensured and the row of self.guild_id is stamped with utcnow().
Guild_sync_bans(guild, fetched) ==
    IF fetched = None
    THEN [outcome |-> "returned", guilds |-> guilds, bans |-> bans, users |-> users,
          hist |-> firstEnsured, writes |-> <<>>]
    ELSE LET e == EnsureAll(bans, users, firstEnsured, guild, fetched[1],
                            DOMAIN fetched[1])
         IN [outcome |-> "returned",
             guilds |-> UpdateWhere(guilds, self.guild_id,
                                    [last_ban_sync |-> Some(now)]),
             bans |-> e.bans, users |-> e.users, hist |-> e.hist,
             writes |-> <<[table |-> "guilds", kind |-> "update",
                           cols |-> {"last_ban_sync"}]>>]

SyncBans ==
    /\ calls < MaxCalls
    /\ \E guild \in BanGuilds, fetched \in BanFetches :
         \E r \in {Guild_sync_bans(guild, fetched)} :
         /\ guilds' = r.guilds
         /\ bans' = r.bans
         /\ users' = r.users
         /\ firstEnsured' = r.hist
         /\ last' = [op |-> "sync_bans", arg |-> <<guild, fetched>>,
                     outcome |-> r.outcome, ret |-> None, writes |-> r.writes]
    /\ calls' = calls + 1
    /\ now' = now + 1
    /\ UNCHANGED <<self, cached, fetches, parses>>
    /\ UNCHANGED <<urlVars, emojiVars>>

-----------------------------------------------------------------------------
(* GuildEmoji.from_disco_guild_emoji *)

EmojiIds == {1, 2}

\* an emoji-like object of the platform
BaseEmoji(id) ==
    [id |-> id, guild_id |-> 1, name |-> "x", require_colons |-> TRUE,
     managed |-> FALSE, roles |-> <<>>]

\* per id: one emoji, and the emoji with each field changed in turn
LiveEmojis ==
    UNION {{BaseEmoji(id),
            [BaseEmoji(id) EXCEPT !.guild_id = 2],
            [BaseEmoji(id) EXCEPT !.name = "y"],
            [BaseEmoji(id) EXCEPT !.require_colons = FALSE],
            [BaseEmoji(id) EXCEPT !.managed = TRUE],
            [BaseEmoji(id) EXCEPT !.roles = <<7>>]} : id \in EmojiIds}

\* the guild_id argument: None when not supplied.  Guild ids are platform
\* snowflakes, never 0.
GuildIdArgs == {None} \cup {Some(g) : g \in GuildIds}

\* `b or a`: the operands of the `or` exchanged
PyOr_swapped(a, b) == IF b = 0 THEN a[1] ELSE b

\* Python's `a or b` on an optional id: b when a is None or 0
PyOr(a, b) == IF a = None \/ a[1] = 0 THEN b ELSE a[1]

\* ge.save(force_insert=new): INSERT, which the primary key refuses when the
\* id is taken, or UPDATE of every field WHERE emoji_id = ge.emoji_id
SaveEmoji(table, ge, force_insert) ==
    IF force_insert
    THEN IF \E r \in table : r.emoji_id = ge.emoji_id
         THEN [outcome |-> "IntegrityError", emojis |-> table, kind |-> "insert"]
         ELSE [outcome |-> "ok", emojis |-> table \cup {ge}, kind |-> "insert"]
    ELSE [outcome |-> "ok",
          emojis |-> {IF r.emoji_id = ge.emoji_id THEN ge ELSE r : r \in table},
          kind |-> "update"]

GuildEmoji_from_disco_guild_emoji(emoji, guild_id) ==
    LET found == {r \in emojis : r.emoji_id = emoji.id}
        new   == found = {}
        ge    == [emoji_id |-> emoji.id,
                  guild_id |-> PyOr(guild_id, emoji.guild_id),
                  name |-> emoji.name,
                  require_colons |-> emoji.require_colons,
                  managed |-> emoji.managed,
                  roles |-> emoji.roles,
                  deleted |-> IF new THEN FALSE
                              ELSE (CHOOSE r \in found : TRUE).deleted]
        s     == SaveEmoji(emojis, ge, new)
    IN [outcome |-> s.outcome, emojis |-> s.emojis, kind |-> s.kind, ret |-> ge,
        before |-> found]

FromDiscoGuildEmoji ==
    /\ calls < MaxCalls
    /\ \E emoji \in LiveEmojis, guild_id \in GuildIdArgs :
         \E r \in {GuildEmoji_from_disco_guild_emoji(emoji, guild_id)} :
         /\ emojis' = r.emojis
         /\ lastUpsert' = [lastUpsert EXCEPT ![emoji.id] =
                              Some([emoji |-> emoji, guild_id |-> guild_id,
                                    before |-> r.before])]
         /\ last' = [op |-> "from_disco_guild_emoji", arg |-> <<emoji, guild_id>>,
                     outcome |-> r.outcome, ret |-> Some(r.ret),
                     writes |-> <<[table |-> "guildemojis", kind |-> r.kind,
                                   cols |-> DOMAIN r.ret]>>]
    /\ calls' = calls + 1
    /\ UNCHANGED <<urlVars, guildVars, banVars, now>>

\* rows another component stored earlier, one of them flagged deleted
StoredEmojis ==
    {{},
     {[emoji_id |-> 1, guild_id |-> 1, name |-> "x", require_colons |-> TRUE,
       managed |-> FALSE, roles |-> <<>>, deleted |-> TRUE]},
     {[emoji_id |-> 2, guild_id |-> 2, name |-> "y", require_colons |-> FALSE,
       managed |-> FALSE, roles |-> <<7>>, deleted |-> FALSE]}}

-----------------------------------------------------------------------------
(* Initial states and specifications *)

\* a URL assembled from the pieces, nothing validated yet
UrlInit ==
    /\ scheme \in Schemes
    /\ host \in Hosts
    /\ segs \in SeqsUpTo(SegNames, MaxSegs)
    /\ tail \in Tails
    /\ url = MakeUrl(scheme, host, segs, tail)
    /\ normalized = None
    /\ renormalized = None
    /\ step = "input"

\* one URL, for the specifications that are not about the validator
UrlFixed ==
    /\ scheme = "https://"
    /\ host = "github.com"
    /\ segs = <<>>
    /\ tail = ""
    /\ url = MakeUrl(scheme, host, segs, tail)
    /\ normalized = None
    /\ renormalized = None
    /\ step = "input"

\* one guild row, loaded into the record object; no cached config yet
GuildInit(configs) ==
    /\ \E c \in configs :
         /\ guilds = {Row0(c)}
         /\ self = Row0(c)
    /\ cached = None
    /\ fetches = 0
    /\ parses = 0

TablesInit(stored) ==
    /\ bans = {}
    /\ users = {}
    /\ firstEnsured = {}
    /\ emojis \in stored
    /\ lastUpsert = [e \in EmojiIds |-> None]

CallsInit ==
    /\ now = 1
    /\ calls = 0
    /\ last = NoCall

\* the validator alone
InitUrl ==
    /\ UrlInit
    /\ GuildInit({Some({"plugins"})})
    /\ TablesInit({{}})
    /\ CallsInit

NextUrl == Validate \/ Revalidate

SpecUrl == InitUrl /\ [][NextUrl]_vars

\* the mirror fields of one record
InitSync ==
    /\ UrlFixed
    /\ GuildInit({Some({"plugins"})})
    /\ TablesInit({{}})
    /\ CallsInit

NextSync == WithId \/ Sync

SpecSync == InitSync /\ [][NextSync]_vars

\* the configuration of one record
InitConfig ==
    /\ UrlFixed
    /\ GuildInit({None} \cup {Some(d) : d \in Docs})
    /\ TablesInit({{}})
    /\ CallsInit

NextConfig == WithId \/ CreateFromUrl \/ Reload \/ GetConfig

SpecConfig == InitConfig /\ [][NextConfig]_vars

\* the ban cache
InitBans == InitSync

NextBans == SyncBans \/ Ensure

SpecBans == InitBans /\ [][NextBans]_vars

\* the emoji cache
InitEmoji ==
    /\ UrlFixed
    /\ GuildInit({Some({"plugins"})})
    /\ TablesInit(StoredEmojis)
    /\ CallsInit

NextEmoji == FromDiscoGuildEmoji

SpecEmoji == InitEmoji /\ [][NextEmoji]_vars

-----------------------------------------------------------------------------
(* Properties of validate_config_url (SpecUrl) *)

\* the host is an allow-listed domain or a subdomain of one
ExactOrSubdomain(h) ==
    \E d \in ALLOWED_DOMAINS : h = d \/ EndsWith(h, "." \o d)

\* the input has the gist raw shape
\* https://gist.<host>/<user>/<gist-id>/raw/<revision>/<filename>
GistShape ==
    /\ scheme = "https://"
    /\ StartsWith(host, "gist.")
    /\ Len(segs) = 5
    /\ segs[3] = "raw"

\* C1: validate_config_url returns a URL exactly when the URL's host is an
\* allow-listed domain or a dot-separated subdomain of one, and None for
\* every other host.
C1_AcceptsExactlyAllowedHosts ==
    step # "input" =>
        /\ (normalized # None) <=> ExactOrSubdomain(Netloc(url))
        /\ normalized # None => normalized[1] # ""

\* C2 as stated: an accepted gist-host URL of the gist raw shape comes back
\* as https://gist.<host>/<user>/<gist-id>/raw/<revision> (revision kept,
\* filename dropped), and every other accepted gist-host URL comes back
\* unchanged.
C2_KeepsRevisionDropsFilename ==
    (step # "input" /\ normalized # None /\ StartsWith(host, "gist")) =>
        IF GistShape
        THEN normalized = Some("https://" \o host \o Path(SubSeq(segs, 1, 4)))
        ELSE normalized = Some(url)

\* C2 as amended: an accepted URL of the gist raw shape on
\* gist.githubusercontent.com comes back as
\* https://gist.githubusercontent.com/<user>/<gist-id>/raw/<filename>
\* (revision dropped, filename kept); an accepted gist-host URL on
\* gist.github.com, or with no "raw" path segment, comes back unchanged.
C2_DropsRevisionKeepsFilename ==
    (step # "input" /\ normalized # None /\ StartsWith(host, "gist")) =>
        /\ (GistShape /\ host = "gist.githubusercontent.com") =>
              normalized = Some("https://gist.githubusercontent.com"
                                \o Path(<<segs[1], segs[2], "raw", segs[5]>>) \o tail)
        /\ (host = "gist.github.com" \/ \A i \in 1..Len(segs) : segs[i] # "raw") =>
              normalized = Some(url)

\* a gist-shaped URL with distinct revision and filename has been rewritten
C2_Witness ==
    /\ step = "validated"
    /\ GistShape
    /\ host = "gist.githubusercontent.com"
    /\ segs[4] # segs[5]
    /\ segs[1] # segs[2]
    /\ normalized \notin {None, Some(url)}

\* C3 as stated: whenever validate_config_url accepts a URL and rewrites it
\* through the gist pattern, validating the result again returns the result
\* unchanged.
C3_RewriteIsIdempotent ==
    (step = "revalidated" /\ normalized # Some(url)) => renormalized = normalized

\* C3 as amended: the same, for accepted URLs with exactly five path
\* segments <user>/<gist-id>/raw/<revision>/<filename>.
C3_RewriteIsIdempotentOnGistShape ==
    (step = "revalidated" /\ normalized # Some(url) /\ Len(segs) = 5 /\ segs[3] = "raw")
        => renormalized = normalized

\* a gist-shaped URL has been rewritten and its result validated again
C3_Witness ==
    /\ step = "revalidated"
    /\ GistShape
    /\ normalized # Some(url)
    /\ renormalized = normalized

-----------------------------------------------------------------------------
(* Properties of the Guild record (SpecConfig, SpecSync, SpecBans) *)

\* C4: create_from_url with a URL the validator rejects fails with the
\* invalid-configuration-URL error, makes no fetch and leaves the guilds
\* table as it was.
C4_InvalidUrlNeverFetches ==
    [][(/\ last'.op = "create_from_url"
        /\ calls' = calls + 1
        /\ validate_config_url(last'.arg[2]) = None)
       => /\ last'.outcome = "InvalidConfigURL"
          /\ fetches' = fetches
          /\ guilds' = guilds
          /\ last'.writes = <<>>]_vars

\* a create_from_url call has been refused
C4_Witness ==
    /\ last.op = "create_from_url"
    /\ last.outcome = "InvalidConfigURL"
    /\ validate_config_url(last.arg[2]) = None

\* C5: sync issues no write when every mirror field of the stored row equals
\* the live value, and otherwise exactly one update of exactly the mirror
\* fields whose stored value differs; the other columns and the cached config
\* stay as they were.
C5_SyncWritesTheStoredDifference ==
    [][(last'.op = "sync" /\ calls' = calls + 1)
       => LET guild == last'.arg[1]
              row   == CHOOSE r \in RowsOf(guilds, self.guild_id) : TRUE
              after == CHOOSE r \in RowsOf(guilds', self.guild_id) : TRUE
              diff  == {k \in MirrorFields : row[k] # guild[k]}
          IN /\ diff = {} => last'.writes = <<>>
             /\ diff # {} => /\ Len(last'.writes) = 1
                             /\ last'.writes[1].cols = diff
             /\ \A k \in BotFields : after[k] = row[k]
             /\ cached' = cached]_vars

\* C6: a get_config call that follows a get_config call, with no reload by
\* the caller in between, returns the object the first call returned, builds
\* no new object and makes no fetch.
C6_SecondGetConfigIsMemoized ==
    [][(/\ last.op = "get_config"
        /\ last.outcome = "ok"
        /\ last'.op = "get_config"
        /\ calls' = calls + 1)
       => /\ last'.outcome = "ok"
          /\ last'.ret = last.ret
          /\ parses' = parses
          /\ fetches' = fetches]_vars

\* C7: when guild.get_bans() fails, sync_bans returns normally and leaves
\* the guilds row (last_ban_sync with it), the guildbans rows and the users
\* rows as they were, issuing no statement.
C7_FailedBanFetchChangesNothing ==
    [][(/\ last'.op = "sync_bans"
        /\ calls' = calls + 1
        /\ last'.arg[2] = None)
       => /\ last'.outcome = "returned"
          /\ guilds' = guilds
          /\ bans' = bans
          /\ users' = users
          /\ last'.writes = <<>>]_vars

\* a ban fetch has failed for a guild that has bans stored and was synced
C7_Witness ==
    /\ last.op = "sync_bans"
    /\ last.arg[2] = None
    /\ bans # {}
    /\ \E r \in guilds : r.last_ban_sync # None

\* C8: there is at most one guildbans row per (guild_id, user_id), it holds
\* the reason of the first ensure of that pair, and ensure returns that row.
C8_BansAreInsertOnly ==
    /\ \A r1, r2 \in bans :
          (r1.guild_id = r2.guild_id /\ r1.user_id = r2.user_id) => r1 = r2
    /\ \A h \in firstEnsured : h \in bans
    /\ last.op = "ensure" =>
          /\ last.ret[1] \in bans
          /\ last.ret[1].guild_id = last.arg[1].id
          /\ last.ret[1].user_id = last.arg[2].user.id

\* an ensure found a row whose reason differs from the live ban's
C8_Witness ==
    /\ last.op = "ensure"
    /\ last.writes = <<>>
    /\ last.ret[1].reason # last.arg[2].reason

\* C9: a cached config object is always one built from the record's current
\* config; a reload that succeeds stores the loaded document in the record
\* and in its row and removes the cached object; a reload that fails changes
\* neither; get_config returns the cached object.
C9_CacheIsOfCurrentConfig ==
    [][/\ cached' # None => cached'[1].src = self'.config
       /\ (last'.op = "reload" /\ calls' = calls + 1) =>
             IF last'.outcome = "ok"
             THEN /\ self'.config = last'.ret
                  /\ \A r \in RowsOf(guilds', self'.guild_id) : r.config = last'.ret
                  /\ cached' = None
             ELSE /\ self' = self
                  /\ cached' = cached
                  /\ guilds' = guilds
       /\ (last'.op = "get_config" /\ calls' = calls + 1 /\ last'.outcome = "ok") =>
             /\ cached' # None
             /\ last'.ret = Some(cached'[1].obj)
       /\ (last'.op = "get_config" /\ calls' = calls + 1 /\ last'.outcome # "ok") =>
             /\ self' = self
             /\ cached' = cached]_vars

\* get_config built the cached object without a fetch, and the reload that
\* followed replaced the config and removed the object
C9_Witness ==
    /\ calls = 2
    /\ last.op = "reload"
    /\ last.outcome = "ok"
    /\ parses = 1
    /\ fetches = 1
    /\ cached = None
    /\ \A r \in guilds : r.config = self.config

-----------------------------------------------------------------------------
(* Properties of the emoji cache (SpecEmoji) *)

====
